---- MODULE Spec2Model ----
(***************************************************************************)
(* The web ChatContainer (src/unnamed/part_001) with its ChatInput         *)
(* (src/MILESTONE-2-FEATURES.md, lines 81-162).                            *)
(*                                                                         *)
(* One React component instance: its useState cells are the variables,     *)
(* every event handler, promise continuation and timer callback is one     *)
(* action (React batches the setState calls of one callback, so a callback *)
(* is atomic).  handleSendMessage is an async function: it is split at its *)
(* await points (getUserLocation, fetch, response.json).                   *)
(*                                                                         *)
(* A text is a sequence of tokens (words, or " " for white space), so that *)
(* trim, toLowerCase and includes are computed, not assumed.               *)
(*                                                                         *)
(* The embeddable widget (src/unnamed/part_003) is a second component with *)
(* variables and a specification of its own (SpecWidget).                  *)
(***************************************************************************)
EXTENDS Integers, Sequences, FiniteSets, TLC

(***************************************************************************)
(* Bounds                                                                  *)
(***************************************************************************)
\* handleSendMessage is invoked at most MaxTurns times in a behaviour of Spec,
\* and once more in a behaviour of SpecLong.
MaxTurns == 2

\* The widget's handleSendMessage and handleVoiceInput are invoked at most
\* MaxWidgetTurns times, taken together, in a behaviour of SpecWidget.
MaxWidgetTurns == 2

\* The mall-delivery ChatContainer's handleSendMessage gets past its guard at
\* most MaxMallTurns times in a behaviour of SpecMall.
MaxMallTurns == 2

\* monitorSilence's interval callback runs at most MaxSilenceChecks times in
\* a behaviour of SpecVoice.
MaxSilenceChecks == 28

\* At most MaxRecordings recordings are started in a behaviour of SpecVoice.
MaxRecordings == 1

\* The clock advances by at most MaxClockTicks milliseconds in a behaviour of
\* SpecClock.
MaxClockTicks == 2

\* No cart entry's quantity is raised above MaxQuantity in a behaviour of
\* SpecCart.
MaxQuantity == 3

(***************************************************************************)
(* Values                                                                  *)
(***************************************************************************)
\* JavaScript's undefined: an absent optional field.
Undef == "undefined"

\* JavaScript truthiness of an optional string, the left operand of `||`/`&&`.
Truthy(v) == v # Undef /\ v # ""

\* String.prototype.toLowerCase, token by token.
LowerTok(tok) ==
    CASE tok = "I" -> "i"
      [] tok = "Brake" -> "brake"
      [] tok = "Today" -> "today"
      [] tok = "Tomorrow" -> "tomorrow"
      [] tok = "Next" -> "next"
      [] tok = "AM" -> "am"
      [] tok = "PM" -> "pm"
      [] tok = "Thank" -> "thank"
      [] tok = "I'll" -> "i'll"
      [] tok = "Can" -> "can"
      [] tok = "Schedule" -> "schedule"
      [] tok = "Contact" -> "contact"
      [] tok = "Show" -> "show"
      [] tok = "Browse" -> "browse"
      [] OTHER -> tok

toLowerCase(text) == [i \in 1..Len(text) |-> LowerTok(text[i])]

\* String.prototype.includes: pattern occurs as a contiguous run of text.
includes(text, pattern) ==
    \E i \in 1..(Len(text) + 1 - Len(pattern)) :
        SubSeq(text, i, i + Len(pattern) - 1) = pattern

\* String.prototype.trim: white space removed at both ends.
RECURSIVE TrimLeft(_)
TrimLeft(text) ==
    IF text # <<>> /\ Head(text) = " " THEN TrimLeft(Tail(text)) ELSE text

RECURSIVE TrimRight(_)
TrimRight(text) ==
    IF text # <<>> /\ text[Len(text)] = " "
    THEN TrimRight(SubSeq(text, 1, Len(text) - 1))
    ELSE text

trim(text) == TrimRight(TrimLeft(text))

(***************************************************************************)
(* Texts                                                                   *)
(***************************************************************************)
\* What the user may have typed into ChatInput's textarea (its `message`
\* state) when the form is submitted.
TypedTexts ==
    { <<>>,
      <<" ">>,
      <<"I", "have", "a", "Brake", "problem">>,
      <<"services", "near", "me">> }

\* The initial message of the log, and the one reset installs.
Greeting ==
    [turn |-> 0, isBot |-> TRUE,
     content |-> <<"Hello! I'm Kodee from Vogo.Family. How can I assist you today?">>,
     id |-> 1]

LocationAckText == <<"I've detected your location to find services near you.">>

ErrorText == <<"Sorry, I encountered an error. Please try again later.">>

HandoffText ==
    <<"I'm transferring you to a human operator who will assist you shortly. Thank you for your patience.">>

\* The template string of calendarMessage.content.
CalendarText(date, time) ==
    <<"I've added your appointment to your calendar for", date, "at", time,
      "An email confirmation has been sent to reservations@vogo.family.">>

(***************************************************************************)
(* The responder's replies (the parsed JSON body of a 2xx response)        *)
(***************************************************************************)
Reply(response, action, expecting, services, date, time, requires_human) ==
    [response |-> response, action |-> action, expecting |-> expecting,
     services |-> services, date |-> date, time |-> time,
     requires_human |-> requires_human]

\* services is a sequence of names; an absent `services` is the empty
\* sequence, which `data.services?.[0]` does not tell from an empty array.
Replies ==
    { Reply("Here are nearby services...", Undef, "date", <<"ServiceA", "ServiceB">>, Undef, Undef, FALSE),
      Reply("What hour?", Undef, "time", <<>>, "tomorrow", Undef, FALSE),
      Reply("Booked!", "calendar_add", Undef, <<>>, Undef, "10 AM", FALSE),
      Reply("Booked!", "calendar_add", Undef, <<>>, Undef, Undef, TRUE),
      Reply("When suits you?", Undef, Undef, <<>>, "tomorrow", "10 AM", FALSE) }

\* data.services?.[0]
FirstService(data) ==
    IF data.services = <<>> THEN Undef ELSE data.services[1]

(***************************************************************************)
(* State                                                                   *)
(***************************************************************************)
VARIABLES
    messages,           \* useState<MessageType[]>: the Message Log
    isLoading,          \* useState(false)
    isChatMinimized,    \* useState(false)
    conversationState,  \* useState<ConversationState>({})
    humanOperatorMode,  \* useState(false)
    handlers,           \* the suspended invocations of handleSendMessage
    timers,             \* the pending setTimeout callbacks
    turn,               \* invocations of handleSendMessage so far
    sent,               \* fetch calls issued so far
    turnsLeft           \* invocations of handleSendMessage still explored

\* The embeddable widget (src/unnamed/part_003), a component of its own.
VARIABLES
    widget,             \* ChatWidget's useState cells: isOpen, isMinimized,
                        \* messages, loading, quickResponses
    widgetCalls         \* its async calls: the suspended ones (handlers), the
                        \* invocations so far (turn), the requests sent (sent),
                        \* the invocations still explored (turnsLeft)

\* The mall-delivery ChatContainer of chatbot-fe
\* (src/apps/chatbot-fe/src/components/mall/MallDeliverySearch.tsx, lines
\* 689-1062), a component of its own.
VARIABLES
    mall,               \* its useState cells (messages, inputValue, isTyping,
                        \* waitingForLocation, locationOptions) and its
                        \* `minimized` prop
    mallCalls           \* its async calls: the suspended ones (handlers), the
                        \* pending setTimeout callbacks in the order they were
                        \* set (timers), the onAction calls made (actions),
                        \* the invocations so far (turn), the requests sent
                        \* (sent), the invocations still explored (turnsLeft)

containerVars ==
    <<messages, isLoading, isChatMinimized, conversationState,
      humanOperatorMode, handlers, timers, turn, sent, turnsLeft>>

widgetVars == <<widget, widgetCalls>>

mallVars == <<mall, mallCalls>>

\* The widget's VoiceInput (src/apps/widget/src/components/VoiceInput.jsx)
\* and the browser's clock.
VARIABLES
    voice,              \* VoiceInput: isRecording (useState), the pending
                        \* getUserMedia call (asking), the MediaRecorder's
                        \* state (recorder), audioChunksRef as chunk sizes
                        \* (chunks), and the running monitorSilence closure:
                        \* its interval (monitoring), its silenceStart, and
                        \* the isRecording its stopRecording closed over
                        \* (closureIsRecording); checks counts the runs of
                        \* the interval callback, recordingsLeft the
                        \* recordings still to be explored
    now                 \* Date.now(), in milliseconds

\* MallDeliverySearch
\* (src/apps/chatbot-fe/src/components/mall/MallDeliverySearch.tsx).
VARIABLES
    cart                \* useState<CartItem[]>([]): the entries in order,
                        \* each with its product id and quantity

vars == <<containerVars, widgetVars, mallVars, voice, now, cart>>

\* What lies outside the web ChatContainer, outside the widget, outside the
\* mall-delivery ChatContainer, and outside VoiceInput and the widget it
\* reports to.
outsideContainer == <<widgetVars, mallVars, voice, now, cart>>

outsideWidget == <<containerVars, mallVars, voice, now, cart>>

outsideMall == <<containerVars, widgetVars, voice, now, cart>>

outsideVoice == <<containerVars, mallVars, cart>>

outsideCart == <<containerVars, widgetVars, mallVars, voice, now>>

\* The widget after its first render and its mount effect: closed, an empty
\* log, and fetchQuickResponses suspended at its fetch.
InitWidget ==
    /\ widget = [isOpen |-> FALSE, isMinimized |-> FALSE, messages |-> <<>>,
                 loading |-> FALSE, quickResponses |-> <<>>]
    /\ widgetCalls =
          [handlers |-> {[kind |-> "quickResponses", turn |-> 0,
                          pc |-> "fetch", ok |-> TRUE]},
           turn |-> 0, sent |-> 0, turnsLeft |-> MaxWidgetTurns]

\* The three messages the mall-delivery ChatContainer starts with (ids '1',
\* '2' and '3').
MallGreetings ==
    << [turn |-> 0, role |-> "assistant",
        content |-> <<"Hello! I'm your Vogo.Family assistant. How can I help you today?">>],
       [turn |-> 0, role |-> "assistant",
        content |-> <<"We offer a variety of products including: ...">>],
       [turn |-> 0, role |-> "assistant",
        content |-> <<"Feel free to ask about any of our product categories or browse our mall delivery services!">>] >>

\* The mall-delivery ChatContainer after its first render.
InitMall ==
    /\ mall = [messages |-> MallGreetings, inputValue |-> <<>>,
               isTyping |-> FALSE, waitingForLocation |-> FALSE,
               locationOptions |-> <<>>, minimized |-> FALSE]
    /\ mallCalls = [handlers |-> {}, timers |-> <<>>, actions |-> {},
                    turn |-> 0, sent |-> 0, turnsLeft |-> MaxMallTurns]

\* Date.now() when the page was loaded: any value far above the fixed ids
\* '1', '2' and '3' of the initial messages.
StartTime == 10

\* silenceStart = null
Null == 0

\* VoiceInput after its first render, and the clock.
InitVoice ==
    /\ voice = [isRecording |-> FALSE, asking |-> FALSE, recorder |-> "none",
                chunks |-> <<>>, monitoring |-> FALSE, silenceStart |-> Null,
                closureIsRecording |-> FALSE, checks |-> 0,
                recordingsLeft |-> MaxRecordings]
    /\ now = StartTime

\* useState<CartItem[]>([])
InitCart == cart = <<>>

\* useState<ConversationState>({}): every optional field absent.
EmptyState ==
    [expecting |-> Undef, selectedService |-> Undef, date |-> Undef,
     time |-> Undef, issue |-> Undef]

Init ==
    /\ messages = <<Greeting>>
    /\ isLoading = FALSE
    /\ isChatMinimized = FALSE
    /\ conversationState = EmptyState
    /\ humanOperatorMode = FALSE
    /\ handlers = {}
    /\ timers = {}
    /\ turn = 0
    /\ sent = 0
    /\ turnsLeft = MaxTurns
    /\ InitWidget
    /\ InitMall
    /\ InitVoice
    /\ InitCart

\* The same initial state, with one more invocation explored.
InitLong ==
    /\ messages = <<Greeting>>
    /\ isLoading = FALSE
    /\ isChatMinimized = FALSE
    /\ conversationState = EmptyState
    /\ humanOperatorMode = FALSE
    /\ handlers = {}
    /\ timers = {}
    /\ turn = 0
    /\ sent = 0
    /\ turnsLeft = MaxTurns + 1
    /\ InitWidget
    /\ InitMall
    /\ InitVoice
    /\ InitCart

(***************************************************************************)
(* Messages                                                                *)
(***************************************************************************)
\* A MessageType value.  `turn` stands for the id: the invocation of
\* handleSendMessage that created the message (0 for the greeting).
\* userMessage: its id is Date.now().
UserMessage(n, content) ==
    [turn |-> n, isBot |-> FALSE, content |-> content, id |-> now]

\* locationAckMessage, botMessage and errorMessage: the id is Date.now() + 1.
BotMessage(n, content) ==
    [turn |-> n, isBot |-> TRUE, content |-> content, id |-> now + 1]

\* calendarMessage (offset 2) and humanOperatorMessage (offset 3), built
\* when the reply is processed.
DelayedMessage(n, content, offset) ==
    [turn |-> n, isBot |-> TRUE, content |-> content, id |-> now + offset]

(***************************************************************************)
(* handleSendMessage                                                       *)
(***************************************************************************)
\* The location-intent heuristic that decides whether getUserLocation runs.
MatchesLocation(content) ==
    \/ includes(toLowerCase(content), <<"location">>)
    \/ includes(toLowerCase(content), <<"near", "me">>)
    \/ includes(toLowerCase(content), <<"autoservice">>)

\* The keyword match that sets `issue`.
MatchesBrakeProblem(content) ==
    \/ includes(toLowerCase(content), <<"break", "problem">>)
    \/ includes(toLowerCase(content), <<"brake", "problem">>)

\* Merge with `date: data.date`: the fallback to prevState.date is lost.
Merge_DateOverwritten(prevState, data, content) ==
    [expecting |-> data.expecting,
     selectedService |->
        IF Truthy(FirstService(data)) THEN FirstService(data)
        ELSE prevState.selectedService,
     date |-> data.date,
     time |-> IF Truthy(data.time) THEN data.time ELSE prevState.time,
     issue |-> IF MatchesBrakeProblem(content) THEN "brake problem"
               ELSE prevState.issue]

\* The updater passed to setConversationState after a parsed 2xx reply.
Merge(prevState, data, content) ==
    [expecting |-> data.expecting,
     selectedService |->
        IF Truthy(FirstService(data)) THEN FirstService(data)
        ELSE prevState.selectedService,
     date |-> IF Truthy(data.date) THEN data.date ELSE prevState.date,
     time |-> IF Truthy(data.time) THEN data.time ELSE prevState.time,
     issue |-> IF MatchesBrakeProblem(content) THEN "brake problem"
               ELSE prevState.issue]

\* The synchronous head of handleSendMessage(content), up to its first await:
\* the user message is appended, loading is set, and either getUserLocation
\* is awaited or the request is sent at once.  `captured` is the
\* conversationState of the render whose closure is running.
handleSendMessage(content) ==
    /\ turnsLeft > 0
    /\ turnsLeft' = turnsLeft - 1
    /\ turn' = turn + 1
    /\ messages' = Append(messages, UserMessage(turn + 1, content))
    /\ isLoading' = TRUE
    /\ IF MatchesLocation(content)
       THEN /\ handlers' = handlers \cup
                   {[turn |-> turn + 1, content |-> content,
                     captured |-> conversationState,
                     pc |-> "location", location |-> "null"]}
            /\ sent' = sent
       ELSE /\ handlers' = handlers \cup
                   {[turn |-> turn + 1, content |-> content,
                     captured |-> conversationState,
                     pc |-> "fetch", location |-> "null"]}
            /\ sent' = sent + 1
    /\ UNCHANGED <<isChatMinimized, conversationState, humanOperatorMode, timers,
                   outsideContainer>>

\* handleSubmit without its `message.trim()` conjunct.
CanSubmit_IgnoresBlank(message) == ~isLoading

\* handleSubmit without its `!isLoading` conjunct.
CanSubmit_IgnoresLoading(message) == trim(message) # <<>>

\* ChatInput.handleSubmit's condition for calling onSendMessage(message).
CanSubmit(message) == trim(message) # <<>> /\ ~isLoading

\* ChatInput.handleSubmit with `message` typed into the textarea.
SubmitText(message) ==
    /\ ~isChatMinimized
    /\ IF CanSubmit(message)
       THEN handleSendMessage(message)
       ELSE UNCHANGED vars

\* getQuickResponses with humanOperatorMode tested before `expecting`.
getQuickResponses_OperatorModeFirst ==
    IF humanOperatorMode
    THEN << <<"Thank", "you">>, <<"I'll", "wait">>,
            <<"Can", "I", "get", "an", "email", "update?">> >>
    ELSE IF conversationState.expecting = "date"
    THEN << <<"Today">>, <<"Tomorrow">>, <<"Next", "week">> >>
    ELSE IF conversationState.expecting = "time"
    THEN << <<"9", "AM">>, <<"12", "PM">>, <<"3", "PM">> >>
    ELSE << <<"I", "need", "a", "autoservice", "in", "my", "location">>,
            <<"I", "have", "a", "brake", "problem">>,
            <<"Schedule", "an", "appointment">>,
            <<"Contact", "a", "human", "agent">> >>

\* The quick-reply set offered in the current state.
getQuickResponses ==
    IF conversationState.expecting = "date"
    THEN << <<"Today">>, <<"Tomorrow">>, <<"Next", "week">> >>
    ELSE IF conversationState.expecting = "time"
    THEN << <<"9", "AM">>, <<"12", "PM">>, <<"3", "PM">> >>
    ELSE IF humanOperatorMode
    THEN << <<"Thank", "you">>, <<"I'll", "wait">>,
            <<"Can", "I", "get", "an", "email", "update?">> >>
    ELSE << <<"I", "need", "a", "autoservice", "in", "my", "location">>,
            <<"I", "have", "a", "brake", "problem">>,
            <<"Schedule", "an", "appointment">>,
            <<"Contact", "a", "human", "agent">> >>

\* A quick-reply button is rendered with disabled={isLoading}.
QuickReplyEnabled == ~isLoading

\* A tap on the i-th quick-reply button: handleQuickResponse(response).
QuickResponse(i) ==
    /\ ~isChatMinimized
    /\ QuickReplyEnabled
    /\ i \in 1..Len(getQuickResponses)
    /\ handleSendMessage(getQuickResponses[i])

\* The handler h, resumed, with its fields changed.
Resume(h, pc, location) == [h EXCEPT !.pc = pc, !.location = location]

\* getUserLocation resolved: the coordinates are kept, the acknowledgement is
\* appended, and the request is sent.
LocationResolved(h) ==
    /\ h \in handlers /\ h.pc = "location"
    /\ messages' = Append(messages, BotMessage(h.turn, LocationAckText))
    /\ handlers' = (handlers \ {h}) \cup {Resume(h, "fetch", "position")}
    /\ sent' = sent + 1
    /\ UNCHANGED <<isLoading, isChatMinimized, conversationState,
                   humanOperatorMode, timers, turn, turnsLeft,
                   outsideContainer>>

\* A failed lookup that aborts the turn through the outer catch.
LocationRejected_Aborts(h) ==
    /\ h \in handlers /\ h.pc = "location"
    /\ messages' = Append(messages, BotMessage(h.turn, ErrorText))
    /\ isLoading' = FALSE
    /\ handlers' = handlers \ {h}
    /\ UNCHANGED <<isChatMinimized, conversationState, humanOperatorMode,
                   timers, turn, sent, turnsLeft, outsideContainer>>

\* getUserLocation rejected (denied, failed or unsupported): the inner catch
\* logs it, and the request is sent with location null.
LocationRejected(h) ==
    /\ h \in handlers /\ h.pc = "location"
    /\ handlers' = (handlers \ {h}) \cup {Resume(h, "fetch", "null")}
    /\ sent' = sent + 1
    /\ UNCHANGED <<messages, isLoading, isChatMinimized, conversationState,
                   humanOperatorMode, timers, turn, turnsLeft,
                   outsideContainer>>

\* A catch block that also drops the `expecting` marker.
CatchFinally_ClearsExpecting(h) ==
    /\ messages' = Append(messages, BotMessage(h.turn, ErrorText))
    /\ isLoading' = FALSE
    /\ handlers' = handlers \ {h}
    /\ conversationState' = [conversationState EXCEPT !.expecting = Undef]
    /\ UNCHANGED <<isChatMinimized, humanOperatorMode, timers, turn, sent, turnsLeft,
                   outsideContainer>>

\* A catch block that sends the request again after the apology.
CatchFinally_Retries(h) ==
    /\ messages' = Append(messages, BotMessage(h.turn, ErrorText))
    /\ isLoading' = FALSE
    /\ handlers' = (handlers \ {h}) \cup {Resume(h, "fetch", h.location)}
    /\ sent' = sent + 1
    /\ UNCHANGED <<isChatMinimized, conversationState, humanOperatorMode,
                   timers, turn, turnsLeft,
                   outsideContainer>>

\* A catch block with no finally: isLoading is left as it is.
CatchFinally_KeepsLoading(h) ==
    /\ messages' = Append(messages, BotMessage(h.turn, ErrorText))
    /\ handlers' = handlers \ {h}
    /\ UNCHANGED <<isLoading, isChatMinimized, conversationState,
                   humanOperatorMode, timers, turn, sent, turnsLeft,
                   outsideContainer>>

\* The outer catch block followed by finally.
CatchFinally(h) ==
    /\ messages' = Append(messages, BotMessage(h.turn, ErrorText))
    /\ isLoading' = FALSE
    /\ handlers' = handlers \ {h}
    /\ UNCHANGED <<isChatMinimized, conversationState, humanOperatorMode,
                   timers, turn, sent, turnsLeft,
                   outsideContainer>>

\* fetch rejected: a network error.
FetchRejected(h) ==
    /\ h \in handlers /\ h.pc = "fetch"
    /\ CatchFinally(h)

\* fetch resolved with a status outside 2xx: !response.ok throws.
FetchNotOk(h) ==
    /\ h \in handlers /\ h.pc = "fetch"
    /\ CatchFinally(h)

\* fetch resolved with a 2xx status: response.json() is awaited.
FetchOk(h) ==
    /\ h \in handlers /\ h.pc = "fetch"
    /\ handlers' = (handlers \ {h}) \cup {Resume(h, "json", h.location)}
    /\ UNCHANGED <<messages, isLoading, isChatMinimized, conversationState,
                   humanOperatorMode, timers, turn, sent, turnsLeft,
                   outsideContainer>>

\* response.json() rejected: the body does not parse.
JsonRejected(h) ==
    /\ h \in handlers /\ h.pc = "json"
    /\ CatchFinally(h)

\* The condition of the calendar_add branch, read from the closure's
\* conversationState.
CalendarAdd(h, data) ==
    /\ data.action = "calendar_add"
    /\ Truthy(h.captured.date)
    /\ Truthy(h.captured.time)

\* The delay of the calendar confirmation's setTimeout, in milliseconds.
CalendarDelay == 1000

\* The delay of the handoff announcement's setTimeout, in milliseconds.
HandoffDelay == 1500

\* The setTimeout callbacks the reply `data` schedules.
Scheduled(h, data) ==
    (IF CalendarAdd(h, data)
     THEN {[turn |-> h.turn, delay |-> CalendarDelay,
            message |-> DelayedMessage(h.turn,
                            CalendarText(h.captured.date, h.captured.time), 2)]}
     ELSE {})
    \cup
    (IF data.requires_human
     THEN {[turn |-> h.turn, delay |-> HandoffDelay,
            message |-> DelayedMessage(h.turn, HandoffText, 3)]}
     ELSE {})

\* A try block that copies data.requires_human into humanOperatorMode.
JsonResolved_OperatorModeFromReply(h, data) ==
    /\ h \in handlers /\ h.pc = "json"
    /\ conversationState' = Merge(conversationState, data, h.content)
    /\ timers' = timers \cup Scheduled(h, data)
    /\ humanOperatorMode' = data.requires_human
    /\ messages' = Append(messages, BotMessage(h.turn, <<data.response>>))
    /\ isLoading' = FALSE
    /\ handlers' = handlers \ {h}
    /\ UNCHANGED <<isChatMinimized, turn, sent, turnsLeft, outsideContainer>>

\* response.json() resolved with `data`: the rest of the try block, then
\* finally.
JsonResolved(h, data) ==
    /\ h \in handlers /\ h.pc = "json"
    /\ conversationState' = Merge(conversationState, data, h.content)
    /\ timers' = timers \cup Scheduled(h, data)
    /\ humanOperatorMode' = (data.requires_human \/ humanOperatorMode)
    /\ messages' = Append(messages, BotMessage(h.turn, <<data.response>>))
    /\ isLoading' = FALSE
    /\ handlers' = handlers \ {h}
    /\ UNCHANGED <<isChatMinimized, turn, sent, turnsLeft, outsideContainer>>

(***************************************************************************)
(* Timers and the header buttons                                           *)
(***************************************************************************)
\* Timer a is due no later than timer b: it was set no later, with no longer
\* a delay (turns are handled in order, and the two timers of one reply are
\* set in the same callback).
DueBefore(a, b) ==
    \/ a.turn < b.turn /\ a.delay <= b.delay
    \/ a.turn = b.turn /\ a.delay < b.delay

\* A timer callback that puts its message at the head of the log.
TimerFire_Prepends(t) ==
    /\ t \in timers
    /\ \A a \in timers : ~DueBefore(a, t)
    /\ messages' = <<t.message>> \o messages
    /\ timers' = timers \ {t}
    /\ UNCHANGED <<isLoading, isChatMinimized, conversationState,
                   humanOperatorMode, handlers, turn, sent, turnsLeft,
                   outsideContainer>>

\* A setTimeout callback runs: setMessages(prev => [...prev, message]).
TimerFire(t) ==
    /\ t \in timers
    /\ \A a \in timers : ~DueBefore(a, t)
    /\ messages' = Append(messages, t.message)
    /\ timers' = timers \ {t}
    /\ UNCHANGED <<isLoading, isChatMinimized, conversationState,
                   humanOperatorMode, handlers, turn, sent, turnsLeft,
                   outsideContainer>>

\* The "Minimize chat" button.
Minimize ==
    /\ ~isChatMinimized
    /\ isChatMinimized' = TRUE
    /\ UNCHANGED <<messages, isLoading, conversationState, humanOperatorMode,
                   handlers, timers, turn, sent, turnsLeft,
                   outsideContainer>>

\* A click on the minimized chat reopens it.
Restore ==
    /\ isChatMinimized
    /\ isChatMinimized' = FALSE
    /\ UNCHANGED <<messages, isLoading, conversationState, humanOperatorMode,
                   handlers, timers, turn, sent, turnsLeft,
                   outsideContainer>>

\* A reset that forgets setHumanOperatorMode(false).
ResetChat_KeepsOperatorMode ==
    /\ ~isChatMinimized
    /\ messages' = <<Greeting>>
    /\ conversationState' = EmptyState
    /\ UNCHANGED <<isLoading, isChatMinimized, humanOperatorMode, handlers,
                   timers, turn, sent, turnsLeft,
                   outsideContainer>>

\* A reset that also clears the loading flag.
ResetChat_ClearsLoading ==
    /\ ~isChatMinimized
    /\ messages' = <<Greeting>>
    /\ conversationState' = EmptyState
    /\ humanOperatorMode' = FALSE
    /\ isLoading' = FALSE
    /\ UNCHANGED <<isChatMinimized, handlers, timers, turn, sent, turnsLeft,
                   outsideContainer>>

\* The "Reset chat" button.
ResetChat ==
    /\ ~isChatMinimized
    /\ messages' = <<Greeting>>
    /\ conversationState' = EmptyState
    /\ humanOperatorMode' = FALSE
    /\ UNCHANGED <<isLoading, isChatMinimized, handlers, timers, turn, sent, turnsLeft,
                   outsideContainer>>

Next ==
    \/ \E message \in TypedTexts : SubmitText(message)
    \/ \E i \in 1..4 : QuickResponse(i)
    \/ \E h \in handlers : LocationResolved(h)
    \/ \E h \in handlers : LocationRejected(h)
    \/ \E h \in handlers : FetchRejected(h)
    \/ \E h \in handlers : FetchNotOk(h)
    \/ \E h \in handlers : FetchOk(h)
    \/ \E h \in handlers : JsonRejected(h)
    \/ \E h \in handlers, data \in Replies : JsonResolved(h, data)
    \/ \E t \in timers : TimerFire(t)
    \/ Minimize
    \/ Restore
    \/ ResetChat

Spec == Init /\ [][Next]_vars

\* The same component, explored one turn further.
SpecLong == InitLong /\ [][Next]_vars

\* Parsed 2xx bodies that lack the `response` field.
MalformedReplies ==
    { Reply(Undef, Undef, "date", <<"ServiceA">>, Undef, Undef, FALSE),
      Reply(Undef, Undef, Undef, <<>>, Undef, Undef, FALSE) }

NextMalformed ==
    \/ Next
    \/ \E h \in handlers, data \in MalformedReplies : JsonResolved(h, data)

\* The component with a responder that may also leave `response` out.
SpecMalformed == Init /\ [][NextMalformed]_vars

\* A suspended handleSendMessage resumes: the promise it awaits (the
\* geolocation lookup, fetch, response.json()) settled.
HandlerStep ==
    \E h \in handlers :
        \/ LocationResolved(h)
        \/ LocationRejected(h)
        \/ FetchRejected(h)
        \/ FetchNotOk(h)
        \/ FetchOk(h)
        \/ JsonRejected(h)
        \/ \E data \in Replies : JsonResolved(h, data)

\* The component when every awaited external call eventually settles: a
\* suspended handler is not left suspended for ever.
SpecFair == Init /\ [][Next]_vars /\ WF_vars(HandlerStep)

(***************************************************************************)
(* The embeddable widget: ChatWidget (src/unnamed/part_003) with ChatInput *)
(* and QuickResponses (src/apps/widget/src/components/ChatInput.jsx) and   *)
(* VoiceInput (src/apps/widget/src/components/VoiceInput.jsx)              *)
(***************************************************************************)
\* What the user may have typed into the widget's input.
WidgetTexts == { <<" ">>, <<" ", "hello", " ">> }

\* The bodies GET /chat/quick-responses may answer with.
QuickResponseLists ==
    { << [id |-> "1", text |-> <<"Find", "services">>],
         [id |-> "2", text |-> <<"Opening", "hours">>] >> }

\* The parsed bodies of POST /chat/message.
WidgetReplies == { [response |-> "We open at 9."], [response |-> Undef] }

\* The parsed bodies of POST /voice/transcribe.
VoiceReplies ==
    { [transcription |-> "hello", response |-> "Hi!"],
      [transcription |-> Undef, response |-> Undef] }

WidgetFallbackText ==
    <<"I received your message but something went wrong with my response. Please try again.">>

WidgetErrorText ==
    <<"Sorry, I couldn't process your message. Please try again later.">>

VoiceErrorText ==
    <<"Sorry, I had trouble processing your voice input. Please try again.">>

\* A message of the widget's log; `id` is the invocation that created it.
WidgetMessage(n, sender, text) == [id |-> n, sender |-> sender, text |-> text]

\* A new suspended call of the widget.
WidgetHandler(kind, n) == [kind |-> kind, turn |-> n, pc |-> "fetch", ok |-> TRUE]

\* The chat content (QuickResponses, ChatInput, VoiceInput) is rendered.
WidgetContentShown == widget.isOpen /\ ~widget.isMinimized

\* The launcher button and the header's close button.
toggleChat ==
    /\ widget' = IF widget.isMinimized
                 THEN [widget EXCEPT !.isMinimized = FALSE]
                 ELSE [widget EXCEPT !.isOpen = ~widget.isOpen]
    /\ UNCHANGED <<widgetCalls, outsideWidget>>

\* The header's minimize button; the header is rendered while isOpen.
toggleMinimize ==
    /\ widget.isOpen
    /\ widget' = [widget EXCEPT !.isMinimized = ~widget.isMinimized]
    /\ UNCHANGED <<widgetCalls, outsideWidget>>

\* fetchQuickResponses fails: fetch rejects, the status is not 2xx, or the
\* body does not parse; quickResponses stays as it is.
QuickResponsesFailed(h) ==
    /\ h \in widgetCalls.handlers /\ h.kind = "quickResponses"
    /\ widgetCalls' = [widgetCalls EXCEPT !.handlers = @ \ {h}]
    /\ UNCHANGED <<widget, outsideWidget>>

\* fetchQuickResponses: fetch resolved with a 2xx status.
QuickResponsesOk(h) ==
    /\ h \in widgetCalls.handlers /\ h.kind = "quickResponses" /\ h.pc = "fetch"
    /\ widgetCalls' = [widgetCalls EXCEPT
                          !.handlers = (@ \ {h}) \cup {[h EXCEPT !.pc = "json"]}]
    /\ UNCHANGED <<widget, outsideWidget>>

\* fetchQuickResponses: the body parsed, setQuickResponses(data).
QuickResponsesLoaded(h, data) ==
    /\ h \in widgetCalls.handlers /\ h.kind = "quickResponses" /\ h.pc = "json"
    /\ widget' = [widget EXCEPT !.quickResponses = data]
    /\ widgetCalls' = [widgetCalls EXCEPT !.handlers = @ \ {h}]
    /\ UNCHANGED outsideWidget

\* ChatWidget.handleSendMessage(message) for a text: it returns when the
\* trimmed text is empty; else the user message is appended, loading is set
\* and the request is sent.  It does not read `loading`.
WidgetSendMessage(message) ==
    IF trim(message) = <<>>
    THEN UNCHANGED vars
    ELSE /\ widgetCalls.turnsLeft > 0
         /\ widget' = [widget EXCEPT
                          !.messages = Append(@, WidgetMessage(widgetCalls.turn + 1,
                                                    "user", trim(message))),
                          !.loading = TRUE]
         /\ widgetCalls' =
               [handlers |-> widgetCalls.handlers \cup
                                {WidgetHandler("message", widgetCalls.turn + 1)},
                turn |-> widgetCalls.turn + 1,
                sent |-> widgetCalls.sent + 1,
                turnsLeft |-> widgetCalls.turnsLeft - 1]
         /\ UNCHANGED outsideWidget

\* The `disabled` prop ChatInput reads: ChatWidget renders
\* <ChatInput onSendMessage={handleSendMessage} loading={loading} />, so
\* `disabled` is undefined, which is falsy.
ChatInputDisabled == FALSE

\* The widget's ChatInput.handleSubmit with `message` typed.
WidgetSubmitText(message) ==
    /\ WidgetContentShown
    /\ IF trim(message) # <<>> /\ ~ChatInputDisabled
       THEN WidgetSendMessage(message)
       ELSE UNCHANGED vars

\* A tap on the i-th button of QuickResponses: onSelect(response), that is
\* handleSendMessage(response), which takes response.text.
WidgetQuickSelect(i) ==
    /\ WidgetContentShown
    /\ i \in 1..Len(widget.quickResponses)
    /\ WidgetSendMessage(widget.quickResponses[i].text)

\* ChatWidget.handleVoiceInput(audioBlob), up to its fetch: loading is set
\* and the upload is sent.
handleVoiceInput ==
    /\ widgetCalls.turnsLeft > 0
    /\ widget' = [widget EXCEPT !.loading = TRUE]
    /\ widgetCalls' =
          [handlers |-> widgetCalls.handlers \cup
                           {WidgetHandler("voice", widgetCalls.turn + 1)},
           turn |-> widgetCalls.turn + 1,
           sent |-> widgetCalls.sent + 1,
           turnsLeft |-> widgetCalls.turnsLeft - 1]

\* VoiceInput's recorder stopped with at least 1024 bytes:
\* onSendMessage(audioBlob), that is handleVoiceInput(audioBlob), up to its
\* fetch.
WidgetVoiceRecorded ==
    /\ WidgetContentShown
    /\ handleVoiceInput
    /\ UNCHANGED outsideWidget

\* The catch block of handleSendMessage or handleVoiceInput, then finally.
WidgetCatchFinally(h) ==
    /\ widget' = [widget EXCEPT
                     !.messages = Append(@, WidgetMessage(h.turn, "bot",
                                      IF h.kind = "voice" THEN VoiceErrorText
                                      ELSE WidgetErrorText)),
                     !.loading = FALSE]
    /\ widgetCalls' = [widgetCalls EXCEPT !.handlers = @ \ {h}]
    /\ UNCHANGED outsideWidget

\* handleSendMessage: fetch rejected, or resolved with a status outside 2xx.
WidgetFetchFailed(h) ==
    /\ h \in widgetCalls.handlers /\ h.kind = "message" /\ h.pc = "fetch"
    /\ WidgetCatchFinally(h)

\* handleSendMessage: fetch resolved with a 2xx status; handleVoiceInput:
\* fetch resolved with any status (ok tells which); response.json() is
\* awaited.
WidgetFetchResolved(h, ok) ==
    /\ h \in widgetCalls.handlers /\ h.pc = "fetch"
    /\ \/ h.kind = "message" /\ ok
       \/ h.kind = "voice"
    /\ widgetCalls' = [widgetCalls EXCEPT
                          !.handlers = (@ \ {h}) \cup
                                       {[h EXCEPT !.pc = "json", !.ok = ok]}]
    /\ UNCHANGED <<widget, outsideWidget>>

\* handleVoiceInput: fetch rejected.
VoiceFetchRejected(h) ==
    /\ h \in widgetCalls.handlers /\ h.kind = "voice" /\ h.pc = "fetch"
    /\ WidgetCatchFinally(h)

\* response.json() rejected, or (handleVoiceInput) parsed under a status
\* outside 2xx.
WidgetJsonFailed(h) ==
    /\ h \in widgetCalls.handlers /\ h.kind \in {"message", "voice"}
    /\ h.pc = "json"
    /\ WidgetCatchFinally(h)

\* handleSendMessage: the body parsed; the bot message carries
\* data.response or the fallback text.
WidgetJsonResolved(h, data) ==
    /\ h \in widgetCalls.handlers /\ h.kind = "message" /\ h.pc = "json"
    /\ widget' = [widget EXCEPT
                     !.messages = Append(@, WidgetMessage(h.turn, "bot",
                                      IF Truthy(data.response)
                                      THEN <<data.response>>
                                      ELSE WidgetFallbackText)),
                     !.loading = FALSE]
    /\ widgetCalls' = [widgetCalls EXCEPT !.handlers = @ \ {h}]
    /\ UNCHANGED outsideWidget

\* handleVoiceInput: the body parsed under a 2xx status; the transcription
\* and the reply are appended together.
VoiceJsonResolved(h, data) ==
    /\ h \in widgetCalls.handlers /\ h.kind = "voice" /\ h.pc = "json" /\ h.ok
    /\ widget' = [widget EXCEPT
                     !.messages = @ \o
                        << WidgetMessage(h.turn, "user",
                               IF Truthy(data.transcription)
                               THEN <<data.transcription>>
                               ELSE <<"Voice message sent">>),
                           WidgetMessage(h.turn, "bot",
                               IF Truthy(data.response)
                               THEN <<data.response>>
                               ELSE <<"Message received">>) >>,
                     !.loading = FALSE]
    /\ widgetCalls' = [widgetCalls EXCEPT !.handlers = @ \ {h}]
    /\ UNCHANGED outsideWidget

NextWidget ==
    \/ toggleChat
    \/ toggleMinimize
    \/ \E h \in widgetCalls.handlers : QuickResponsesFailed(h)
    \/ \E h \in widgetCalls.handlers : QuickResponsesOk(h)
    \/ \E h \in widgetCalls.handlers, data \in QuickResponseLists :
          QuickResponsesLoaded(h, data)
    \/ \E message \in WidgetTexts : WidgetSubmitText(message)
    \/ \E i \in 1..2 : WidgetQuickSelect(i)
    \/ WidgetVoiceRecorded
    \/ \E h \in widgetCalls.handlers : WidgetFetchFailed(h)
    \/ \E h \in widgetCalls.handlers, ok \in BOOLEAN : WidgetFetchResolved(h, ok)
    \/ \E h \in widgetCalls.handlers : VoiceFetchRejected(h)
    \/ \E h \in widgetCalls.handlers : WidgetJsonFailed(h)
    \/ \E h \in widgetCalls.handlers, data \in WidgetReplies :
          WidgetJsonResolved(h, data)
    \/ \E h \in widgetCalls.handlers, data \in VoiceReplies :
          VoiceJsonResolved(h, data)

\* The widget alone; the web ChatContainer stays as constructed.
SpecWidget == Init /\ [][NextWidget]_vars

(***************************************************************************)
(* The mall-delivery ChatContainer of chatbot-fe                           *)
(* (src/apps/chatbot-fe/src/components/mall/MallDeliverySearch.tsx)        *)
(***************************************************************************)
\* What the user may have typed into the input box.
MallTexts == { <<>>, <<" ">>, <<"toys">> }

\* The two quick-response buttons that go through inputValue: their label's
\* text, and the action they signal.
MallQuickButtons ==
    { [text |-> <<"Show", "available", "malls">>, action |-> "show_malls"],
      [text |-> <<"Browse", "products">>, action |-> "browse_products"] }

\* The texts of the five category buttons.
MallCategoryTexts ==
    { <<"Show", "me", "kids", "activities">>,
      <<"Show", "bio", "food", "options">>,
      <<"Show", "antipasti">>,
      <<"Show", "pet", "care", "products">>,
      <<"Show", "allergy", "products">> }

\* The parsed bodies of POST /api/ai-shopping/chat; `locations` stands for
\* data.data?.locations || [].  The last one is an error body: it carries
\* neither `response` nor `action`.
MallReplies ==
    { [response |-> "Please choose a mall.", action |-> "show_malls",
       locations |-> <<"Arad">>],
      [response |-> "Here you go.", action |-> Undef, locations |-> <<>>],
      [response |-> Undef, action |-> Undef, locations |-> <<>>] }

MallErrorText == <<"Sorry, I encountered an error. Please try again.">>

MallMessage(n, role, content) == [turn |-> n, role |-> role, content |-> content]

\* The actions the text of a message signals by its keywords.
MallKeywordActions(message) ==
    LET messageLC == toLowerCase(message)
        has(word) == includes(messageLC, word)
    IN  (IF has(<<"kids">>) \/ has(<<"activities">>) \/ has(<<"toys">>)
         THEN {"show_kids_activities"} ELSE {})
        \cup
        (IF has(<<"bio">>) \/ has(<<"organic">>) \/ has(<<"health", "food">>)
         THEN {"show_bio_food"} ELSE {})
        \cup
        (IF has(<<"antipasti">>) \/ has(<<"appetizers">>) \/ has(<<"starters">>)
         THEN {"show_antipasti"} ELSE {})
        \cup
        (IF has(<<"pet">>) \/ has(<<"dog">>) \/ has(<<"cat">>)
         THEN {"show_pet_care"} ELSE {})
        \cup
        (IF has(<<"allergy">>) \/ has(<<"allergic">>) \/ has(<<"hypoallergenic">>)
         THEN {"show_allergy_products"} ELSE {})

\* handleSendMessage's guard: it returns at once for an empty or blank
\* message.  It reads neither isTyping nor minimized.
MallAccepts(message) == message # <<>> /\ trim(message) # <<>>

\* The synchronous head of handleSendMessage(message), up to its fetch, as
\* it changes the state cells m ...
MallAfterSend(m, message) ==
    IF MallAccepts(message)
    THEN [m EXCEPT !.messages = Append(@, MallMessage(mallCalls.turn + 1,
                                              "user", message)),
                   !.inputValue = <<>>,
                   !.isTyping = TRUE]
    ELSE m

\* ... and the calls.
MallCallsAfterSend(c, message) ==
    IF MallAccepts(message)
    THEN [c EXCEPT !.handlers = @ \cup {[turn |-> c.turn + 1,
                                         content |-> message,
                                         pc |-> "fetch", ok |-> TRUE]},
                   !.turn = @ + 1,
                   !.sent = @ + 1,
                   !.turnsLeft = @ - 1]
    ELSE c

\* The exploration bound on the invocations that get past the guard.
MallMaySend(message) == MallAccepts(message) => mallCalls.turnsLeft > 0

\* The input's onChange: setInputValue(e.target.value).
MallType(text) ==
    /\ ~mall.minimized
    /\ mall' = [mall EXCEPT !.inputValue = text]
    /\ UNCHANGED <<mallCalls, outsideMall>>

\* Enter in the input: handleSendMessage(), whose message defaults to the
\* inputValue of the render.
MallEnter ==
    /\ ~mall.minimized
    /\ MallMaySend(mall.inputValue)
    /\ mall' = MallAfterSend(mall, mall.inputValue)
    /\ mallCalls' = MallCallsAfterSend(mallCalls, mall.inputValue)
    /\ UNCHANGED outsideMall

\* The Send button, disabled={!inputValue.trim() || isTyping}.
MallSendButton ==
    /\ ~mall.minimized
    /\ trim(mall.inputValue) # <<>> /\ ~mall.isTyping
    /\ MallMaySend(mall.inputValue)
    /\ mall' = MallAfterSend(mall, mall.inputValue)
    /\ mallCalls' = MallCallsAfterSend(mallCalls, mall.inputValue)
    /\ UNCHANGED outsideMall

\* A quick-response button: setInputValue(text); handleSendMessage();
\* onAction(action).  handleSendMessage's default message is the inputValue
\* of the render that made the closure, not the text just set.
MallQuickResponse(button) ==
    /\ ~mall.minimized
    /\ MallMaySend(mall.inputValue)
    /\ mall' = MallAfterSend([mall EXCEPT !.inputValue = button.text],
                             mall.inputValue)
    /\ mallCalls' = [MallCallsAfterSend(mallCalls, mall.inputValue) EXCEPT
                        !.actions = @ \cup {button.action}]
    /\ UNCHANGED outsideMall

\* A category button: handleSendMessage(text).
MallCategoryButton(text) ==
    /\ ~mall.minimized
    /\ MallMaySend(text)
    /\ mall' = MallAfterSend(mall, text)
    /\ mallCalls' = MallCallsAfterSend(mallCalls, text)
    /\ UNCHANGED outsideMall

\* A location button: setWaitingForLocation(false);
\* handleSendMessage(location).
MallSelectLocation(i) ==
    /\ ~mall.minimized
    /\ mall.waitingForLocation
    /\ i \in 1..Len(mall.locationOptions)
    /\ MallMaySend(<<mall.locationOptions[i]>>)
    /\ mall' = MallAfterSend([mall EXCEPT !.waitingForLocation = FALSE],
                             <<mall.locationOptions[i]>>)
    /\ mallCalls' = MallCallsAfterSend(mallCalls, <<mall.locationOptions[i]>>)
    /\ UNCHANGED outsideMall

\* VoiceRecorder's onTranscription(text): setInputValue(text);
\* handleSendMessage(text).
MallTranscription(text) ==
    /\ ~mall.minimized
    /\ MallMaySend(text)
    /\ mall' = MallAfterSend([mall EXCEPT !.inputValue = text], text)
    /\ mallCalls' = MallCallsAfterSend(mallCalls, text)
    /\ UNCHANGED outsideMall

\* onMinimize: the page's setMinimized(!minimized).
MallMinimize ==
    /\ mall' = [mall EXCEPT !.minimized = ~@]
    /\ UNCHANGED <<mallCalls, outsideMall>>

\* The catch block, then finally.
MallCatchFinally(h) ==
    /\ mall' = [mall EXCEPT
                   !.messages = Append(@, MallMessage(h.turn, "assistant",
                                                      MallErrorText)),
                   !.isTyping = FALSE]
    /\ mallCalls' = [mallCalls EXCEPT !.handlers = @ \ {h}]
    /\ UNCHANGED outsideMall

\* fetch rejected: a transport failure.
MallFetchRejected(h) ==
    /\ h \in mallCalls.handlers /\ h.pc = "fetch"
    /\ MallCatchFinally(h)

\* fetch resolved, with a 2xx status (ok) or any other: response.ok is not
\* read, response.json() is awaited.
MallFetchResolved(h, ok) ==
    /\ h \in mallCalls.handlers /\ h.pc = "fetch"
    /\ mallCalls' = [mallCalls EXCEPT
                        !.handlers = (@ \ {h}) \cup
                                     {[h EXCEPT !.pc = "json", !.ok = ok]}]
    /\ UNCHANGED <<mall, outsideMall>>

\* response.json() rejected: the body does not parse.
MallJsonRejected(h) ==
    /\ h \in mallCalls.handlers /\ h.pc = "json"
    /\ MallCatchFinally(h)

\* response.json() resolved with `data`: the action of the reply and the
\* keywords of the message are signalled, the assistant message is left to a
\* 500 ms timer, and finally clears isTyping.
MallJsonResolved(h, data) ==
    /\ h \in mallCalls.handlers /\ h.pc = "json"
    /\ mall' = [mall EXCEPT
                   !.waitingForLocation =
                       IF Truthy(data.action)
                       THEN data.action \in {"select_location", "show_malls"}
                       ELSE @,
                   !.locationOptions =
                       IF Truthy(data.action)
                       THEN (IF data.action \in {"select_location", "show_malls"}
                             THEN data.locations ELSE <<>>)
                       ELSE @,
                   !.isTyping = FALSE]
    /\ mallCalls' = [mallCalls EXCEPT
                        !.handlers = @ \ {h},
                        !.actions = @ \cup
                            (IF Truthy(data.action) THEN {data.action} ELSE {})
                            \cup MallKeywordActions(h.content),
                        !.timers = Append(@,
                            MallMessage(h.turn, "assistant", <<data.response>>))]
    /\ UNCHANGED outsideMall

\* The 500 ms timer's callback: setIsTyping(false) and the assistant message
\* is appended.  The timers have one delay, so they fire in the order set.
MallTimerFire ==
    /\ mallCalls.timers # <<>>
    /\ mall' = [mall EXCEPT !.isTyping = FALSE,
                            !.messages = Append(@, Head(mallCalls.timers))]
    /\ mallCalls' = [mallCalls EXCEPT !.timers = Tail(@)]
    /\ UNCHANGED outsideMall

NextMall ==
    \/ \E text \in MallTexts : MallType(text)
    \/ MallEnter
    \/ MallSendButton
    \/ \E button \in MallQuickButtons : MallQuickResponse(button)
    \/ \E text \in MallCategoryTexts : MallCategoryButton(text)
    \/ \E i \in 1..1 : MallSelectLocation(i)
    \/ \E text \in MallTexts : MallTranscription(text)
    \/ MallMinimize
    \/ \E h \in mallCalls.handlers : MallFetchRejected(h)
    \/ \E h \in mallCalls.handlers, ok \in BOOLEAN : MallFetchResolved(h, ok)
    \/ \E h \in mallCalls.handlers : MallJsonRejected(h)
    \/ \E h \in mallCalls.handlers, data \in MallReplies : MallJsonResolved(h, data)
    \/ MallTimerFire

\* The mall-delivery ChatContainer alone.
SpecMall == Init /\ [][NextMall]_vars

(***************************************************************************)
(* The web ChatContainer under a running clock                             *)
(***************************************************************************)

\* A millisecond passes between two steps of the web ChatContainer.
Tick ==
    /\ now < StartTime + MaxClockTicks
    /\ now' = now + 1
    /\ UNCHANGED <<containerVars, widgetVars, mallVars, voice, cart>>

NextClock ==
    \/ Next
    \/ Tick

SpecClock == Init /\ [][NextClock]_vars

(***************************************************************************)
(* The widget's VoiceInput                                                 *)
(* (src/apps/widget/src/components/VoiceInput.jsx)                         *)
(***************************************************************************)

\* ChatWidget renders <VoiceInput onSendMessage={handleSendMessage} />: the
\* disabled prop is undefined.
VoiceInputDisabled == FALSE

\* A recording shorter than this many bytes is discarded.
MinRecordingBytes == 1024

\* SILENCE_DURATION and the period of the silence check, in milliseconds.
SILENCE_DURATION == 5000

SilenceCheckPeriod == 200

\* Sizes of the Blob the recorder delivers when it stops.
BlobSizes == {0, 1023, 1024, 2000}

\* audioChunksRef.current.reduce((sum, chunk) => sum + chunk.size, 0)
RECURSIVE totalSize(_)
totalSize(chunks) ==
    IF chunks = <<>> THEN 0 ELSE Head(chunks) + totalSize(Tail(chunks))

\* The launcher button, tapped while the widget is closed.
VoiceOpenWidget ==
    /\ ~widget.isOpen
    /\ toggleChat

\* The microphone button while isRecording is false: startRecording, up to
\* its await of getUserMedia.  The closures of this render (startRecording,
\* monitorSilence, stopRecording) see this render's isRecording.  One
\* recording at a time: the recorder of the previous one has fired onstop.
VoiceStart ==
    /\ WidgetContentShown
    /\ ~voice.isRecording
    /\ ~VoiceInputDisabled
    /\ ~voice.asking
    /\ voice.recorder \in {"none", "inactive"}
    /\ voice.recordingsLeft > 0
    /\ voice' = [voice EXCEPT !.asking = TRUE,
                              !.closureIsRecording = voice.isRecording]
    /\ UNCHANGED <<widgetVars, now, outsideVoice>>

\* getUserMedia rejected: the alert, and nothing else.
VoiceDenied ==
    /\ voice.asking
    /\ voice' = [voice EXCEPT !.asking = FALSE]
    /\ UNCHANGED <<widgetVars, now, outsideVoice>>

\* getUserMedia resolved: a new MediaRecorder, audioChunksRef emptied, the
\* recorder started, isRecording set, monitorSilence's interval installed
\* with silenceStart = null.
VoiceGranted ==
    /\ voice.asking
    /\ voice' = [voice EXCEPT !.asking = FALSE,
                              !.recorder = "recording",
                              !.chunks = <<>>,
                              !.isRecording = TRUE,
                              !.monitoring = TRUE,
                              !.silenceStart = Null,
                              !.recordingsLeft = @ - 1]
    /\ UNCHANGED <<widgetVars, now, outsideVoice>>

\* stopRecording as a closure that saw isRecording = seen: the recorder is
\* stopped and isRecording cleared only if a recorder exists and seen holds.
stopRecording(seen) ==
    IF voice.recorder # "none" /\ seen
    THEN [voice EXCEPT !.recorder = IF @ = "recording" THEN "stopping" ELSE @,
                       !.isRecording = FALSE]
    ELSE voice

\* The microphone button while isRecording is true: the current render's
\* stopRecording.
VoiceStopClick ==
    /\ WidgetContentShown
    /\ voice.isRecording
    /\ voice' = stopRecording(voice.isRecording)
    /\ UNCHANGED <<widgetVars, now, outsideVoice>>

\* The stopped recorder delivers what it recorded (start() was called
\* without a timeslice): ondataavailable keeps a Blob of positive size.
VoiceDataAvailable(size) ==
    /\ voice.recorder = "stopping"
    /\ voice' = [voice EXCEPT !.recorder = "flushed",
                              !.chunks = IF size > 0 THEN Append(@, size) ELSE @]
    /\ UNCHANGED <<widgetVars, now, outsideVoice>>

VoiceOnStop_ForwardsAll ==
    /\ voice.recorder = "flushed"
    /\ handleVoiceInput
    /\ voice' = [voice EXCEPT !.recorder = "inactive", !.monitoring = FALSE]
    /\ UNCHANGED <<now, outsideVoice>>

\* mediaRecorder.onstop: under 1024 bytes the recording is discarded,
\* otherwise onSendMessage(audioBlob), which ChatWidget.handleSendMessage
\* passes to handleVoiceInput; then the silence interval is cleared.
VoiceOnStop ==
    /\ voice.recorder = "flushed"
    /\ IF totalSize(voice.chunks) < MinRecordingBytes
       THEN UNCHANGED widgetVars
       ELSE handleVoiceInput
    /\ voice' = [voice EXCEPT !.recorder = "inactive", !.monitoring = FALSE]
    /\ UNCHANGED <<now, outsideVoice>>

\* The averaged level is below SILENCE_THRESHOLD for SILENCE_DURATION at
\* time t, given when the silence began.
SilenceElapsed(silenceStart, t) ==
    silenceStart # Null /\ t - silenceStart >= SILENCE_DURATION

\* One run of monitorSilence's interval callback, 200 ms after the last;
\* silent tells whether avgRms < SILENCE_THRESHOLD.  Its stopRecording is
\* the closure of the render that started the recording.
VoiceSilenceCheck(silent) ==
    /\ voice.monitoring
    /\ voice.checks < MaxSilenceChecks
    /\ now' = now + SilenceCheckPeriod
    /\ voice' =
          IF ~silent THEN [voice EXCEPT !.silenceStart = Null,
                                        !.checks = @ + 1]
          ELSE IF voice.silenceStart = Null
               THEN [voice EXCEPT !.silenceStart = now', !.checks = @ + 1]
          ELSE IF SilenceElapsed(voice.silenceStart, now')
               THEN [stopRecording(voice.closureIsRecording)
                        EXCEPT !.checks = @ + 1]
          ELSE [voice EXCEPT !.checks = @ + 1]
    /\ UNCHANGED <<widgetVars, outsideVoice>>

NextVoice ==
    \/ VoiceOpenWidget
    \/ VoiceStart
    \/ VoiceDenied
    \/ VoiceGranted
    \/ VoiceStopClick
    \/ \E size \in BlobSizes : VoiceDataAvailable(size)
    \/ VoiceOnStop
    \/ \E silent \in BOOLEAN : VoiceSilenceCheck(silent)
    \/ \E h \in widgetCalls.handlers, ok \in BOOLEAN : WidgetFetchResolved(h, ok)
    \/ \E h \in widgetCalls.handlers : VoiceFetchRejected(h)
    \/ \E h \in widgetCalls.handlers : WidgetJsonFailed(h)
    \/ \E h \in widgetCalls.handlers, data \in VoiceReplies :
          VoiceJsonResolved(h, data)

SpecVoice == Init /\ [][NextVoice]_vars

(***************************************************************************)
(* The cart of MallDeliverySearch                                          *)
(* (src/apps/chatbot-fe/src/components/mall/MallDeliverySearch.tsx)        *)
(***************************************************************************)

\* The ids of the products on offer.
ProductIds == {"101", "102", "103"}

\* The quantities updateQuantity is called with: item.quantity - 1 and
\* item.quantity + 1 of the buttons, and what lies around them.
Quantities == (0 - 1)..MaxQuantity

\* prevCart.find(item => item.id === productId) found an entry.
InCart(prevCart, productId) ==
    \E i \in DOMAIN prevCart : prevCart[i].id = productId

\* addToCart(product): an entry of that id gets quantity + 1, otherwise an
\* entry with quantity 1 is appended.
addToCart(productId) ==
    /\ \A i \in DOMAIN cart :
          cart[i].id = productId => cart[i].quantity < MaxQuantity
    /\ cart' = IF InCart(cart, productId)
               THEN [i \in DOMAIN cart |->
                        IF cart[i].id = productId
                        THEN [cart[i] EXCEPT !.quantity = @ + 1]
                        ELSE cart[i]]
               ELSE Append(cart, [id |-> productId, quantity |-> 1])
    /\ UNCHANGED outsideCart

\* prevCart.filter(item => item.id !== productId)
WithoutProduct(prevCart, productId) ==
    LET Other(item) == item.id # productId
    IN  SelectSeq(prevCart, Other)

\* removeFromCart(productId)
removeFromCart(productId) ==
    /\ cart' = WithoutProduct(cart, productId)
    /\ UNCHANGED outsideCart

updateQuantity_NoRemoval(productId, quantity) ==
    /\ cart' = [i \in DOMAIN cart |->
                   IF cart[i].id = productId
                   THEN [cart[i] EXCEPT !.quantity = quantity]
                   ELSE cart[i]]
    /\ UNCHANGED outsideCart

\* updateQuantity(productId, quantity): a quantity of 0 or less removes the
\* entry, any other replaces the entry's quantity.
updateQuantity(productId, quantity) ==
    /\ cart' = IF quantity <= 0
               THEN WithoutProduct(cart, productId)
               ELSE [i \in DOMAIN cart |->
                        IF cart[i].id = productId
                        THEN [cart[i] EXCEPT !.quantity = quantity]
                        ELSE cart[i]]
    /\ UNCHANGED outsideCart

\* placeOrder settled (the order was accepted, or the request failed and a
\* mock order is shown): setCart([]).
OrderPlaced ==
    /\ cart # <<>>
    /\ cart' = <<>>
    /\ UNCHANGED outsideCart

NextCart ==
    \/ \E productId \in ProductIds : addToCart(productId)
    \/ \E productId \in ProductIds : removeFromCart(productId)
    \/ \E productId \in ProductIds, quantity \in Quantities :
          updateQuantity(productId, quantity)
    \/ OrderPlaced

SpecCart == Init /\ [][NextCart]_vars

(***************************************************************************)
(* Reading the log                                                         *)
(***************************************************************************)
\* The user entries of a log.
UserEntries(log) == {i \in DOMAIN log : ~log[i].isBot}

\* m is the primary bot reply of a turn (botMessage).
IsPrimary(m) ==
    /\ m.isBot /\ m.turn > 0
    /\ Len(m.content) = 1
    /\ m.content \notin {LocationAckText, ErrorText, HandoffText}

\* m is a calendar confirmation (calendarMessage).
IsCalendar(m) ==
    /\ m.isBot
    /\ Len(m.content) = 5
    /\ m.content = CalendarText(m.content[2], m.content[4])

\* m is a handoff announcement (humanOperatorMessage).
IsHandoff(m) == m.isBot /\ m.content = HandoffText

\* m is the fallback apology (errorMessage).
IsError(m) == m.isBot /\ m.content = ErrorText

\* The user entry of the turn of handler h was removed from the log: the
\* chat was reset after h was submitted.
ResetSince(h) == \A i \in DOMAIN messages : messages[i].turn # h.turn \/ messages[i].isBot

\* m is the location acknowledgement (locationAckMessage).
IsLocationAck(m) == m.isBot /\ m.content = LocationAckText

\* The user entry, and the bot entries, that invocation n of
\* handleSendMessage has in the log.
UserEntriesOf(n) ==
    {i \in DOMAIN messages : ~messages[i].isBot /\ messages[i].turn = n}

BotEntriesOf(n) ==
    {i \in DOMAIN messages : messages[i].isBot /\ messages[i].turn = n}

\* Invocation n of handleSendMessage is suspended at an await.
InFlight(n) == \E h \in handlers : h.turn = n

\* Invocation n of handleSendMessage has run to the end of its finally.
Completed(n) == n \in 1..turn /\ ~InFlight(n)

\* The log `before` is an initial segment of the log `after`: what
\* setMessages(prev => [...prev, m]) leaves of prev.
IsPrefix(before, after) ==
    /\ Len(before) <= Len(after)
    /\ SubSeq(after, 1, Len(before)) = before

\* The turns of the widget in flight: its suspended handleSendMessage and
\* handleVoiceInput calls.
WidgetTurnsInFlight(calls) ==
    {h \in calls.handlers : h.kind \in {"message", "voice"}}

(***************************************************************************)
(* Claims                                                                  *)
(***************************************************************************)
\* C1: at most one turn is in flight: while isLoading is true no step
\* starts a handleSendMessage (no user entry is appended, no handler is
\* added), and a request is sent only by the handler already in flight
\* resuming from getUserLocation; there is never more than one handler.
C1_AtMostOneTurnInFlight ==
    [][ /\ Cardinality(handlers) <= 1
        /\ isLoading =>
            /\ turn' = turn
            /\ Cardinality(UserEntries(messages')) <= Cardinality(UserEntries(messages))
            /\ {h.turn : h \in handlers'} \subseteq {h.turn : h \in handlers}
            /\ sent' # sent => \E h \in handlers : h.pc = "location" /\ h \notin handlers'
      ]_vars

\* C1 witness: a turn is in flight, the chat is open and the turn bound
\* leaves room, so a submission can be attempted and is ignored.
C1_Witness ==
    /\ isLoading /\ ~isChatMinimized /\ turnsLeft > 0
    /\ Cardinality(handlers) = 1

\* C2: a step that takes date, time, selectedService or issue from a value
\* to empty is a reset.
C2_StickyFields ==
    [][ \A f \in {"date", "time", "selectedService", "issue"} :
            (Truthy(conversationState[f]) /\ ~Truthy(conversationState'[f]))
                => ResetChat ]_vars

\* C2 witness: selectedService was set by a reply and survived a later reply
\* that carries no services (the one that sets expecting to "time").
C2_Witness ==
    /\ conversationState.selectedService = "ServiceA"
    /\ conversationState.expecting = "time"
    /\ conversationState.date = "tomorrow"

\* C3: a successful turn whose reply carries no `expecting` leaves
\* `expecting` as it was.
C3_ExpectingKeptWhenAbsent ==
    [][ \A h \in handlers, data \in Replies :
            (JsonResolved(h, data) /\ ~Truthy(data.expecting))
                => conversationState'.expecting = conversationState.expecting
      ]_vars

\* C4: a successful turn whose reply has action 'calendar_add', with date
\* and time both present in the merged Slot Store, schedules a calendar
\* confirmation naming the merged date and time.
C4_CalendarRuleOnMergedStore ==
    [][ \A h \in handlers, data \in Replies :
            ( /\ JsonResolved(h, data)
              /\ data.action = "calendar_add"
              /\ Truthy(conversationState'.date)
              /\ Truthy(conversationState'.time) )
            => \E t \in timers' \ timers :
                  t.message = DelayedMessage(h.turn,
                                  CalendarText(conversationState'.date,
                                               conversationState'.time), 2)
      ]_vars

\* C5: the log never holds two calendar confirmations for the same
\* (date, time) pair.
C5_OneConfirmationPerDateTime ==
    \A i, j \in DOMAIN messages :
        (i < j /\ IsCalendar(messages[i]) /\ IsCalendar(messages[j]))
            => messages[i].content # messages[j].content

\* C6: when the handoff announcement of a turn that also fired the calendar
\* rule is in the log, the log holds that turn's primary response, then its
\* calendar confirmation, then the announcement.
C6_PrimaryCalendarHandoffOrder ==
    \A k \in DOMAIN messages :
        ( /\ IsHandoff(messages[k])
          /\ \/ \E t \in timers : t.turn = messages[k].turn /\ t.delay = CalendarDelay
             \/ \E j \in DOMAIN messages :
                    IsCalendar(messages[j]) /\ messages[j].turn = messages[k].turn )
        => \E i, j \in DOMAIN messages :
              /\ i < j /\ j < k
              /\ IsPrimary(messages[i]) /\ messages[i].turn = messages[k].turn
              /\ IsCalendar(messages[j]) /\ messages[j].turn = messages[k].turn

\* C7: the reply of a turn that was in flight when the chat was reset is
\* discarded: the step that handles it changes neither the log nor the Slot
\* Store.
C7_StaleReplyDiscarded ==
    [][ \A h \in handlers, data \in Replies :
            (ResetSince(h) /\ JsonResolved(h, data))
                => UNCHANGED <<messages, conversationState>> ]_vars

\* C8: a delayed calendar or handoff message whose turn was reset away during
\* the delay never appears: every such message in the log follows the primary
\* response of its own turn.
C8_NoDelayedMessageAfterReset ==
    \A k \in DOMAIN messages :
        (IsCalendar(messages[k]) \/ IsHandoff(messages[k]))
            => \E i \in 1..(k - 1) :
                  IsPrimary(messages[i]) /\ messages[i].turn = messages[k].turn

\* C9: a reset step, taken from any reachable state, ends with the log being
\* exactly the greeting, every slot empty and humanOperatorMode false.
C9_ResetAtomic ==
    [][ ResetChat =>
            /\ messages' = <<Greeting>>
            /\ conversationState' = EmptyState
            /\ humanOperatorMode' = FALSE ]_vars

\* C9 witness: the state right after a reset that followed a handoff reply:
\* the log is the greeting alone while that reply's timer is still pending.
C9_Witness ==
    /\ messages = <<Greeting>>
    /\ conversationState = EmptyState
    /\ ~humanOperatorMode
    /\ \E t \in timers : t.delay = HandoffDelay

\* C10: the step that ends a failed turn (it appends the fallback apology)
\* leaves every slot and humanOperatorMode as they were.
C10_FailureLeavesSlotStore ==
    [][ ( /\ Len(messages') = Len(messages) + 1
          /\ IsError(messages'[Len(messages')]) )
        => UNCHANGED <<conversationState, humanOperatorMode>> ]_vars

\* C10 witness: a turn has just failed while the Slot Store held values.
C10_Witness ==
    /\ IsError(messages[Len(messages)])
    /\ ~isLoading
    /\ conversationState.date = "tomorrow"
    /\ conversationState.expecting = "time"

\* C11: a completed turn whose user entry is in the log has exactly one user
\* entry and, calendar confirmations and handoff announcements aside, exactly
\* one bot entry there, whatever its text; no turn sends a second request.
C11_OneUserOneBotEntry ==
    /\ sent <= turn
    /\ \A n \in 1..turn :
          (Completed(n) /\ UserEntriesOf(n) # {})
              => /\ Cardinality(UserEntriesOf(n)) = 1
                 /\ Cardinality({i \in BotEntriesOf(n) :
                        ~IsCalendar(messages[i]) /\ ~IsHandoff(messages[i])}) = 1

\* C11, amended: a turn has at most one user entry, at most one location
\* acknowledgement (only when its text matches the location heuristic) and
\* at most one reply entry (primary or apology) in the log: none while it is
\* in flight, exactly one once it completed with its user entry still in the
\* log; no turn sends a second request.
C11_OneReplyBesidesLocationAck ==
    /\ sent <= turn
    /\ \A n \in 1..turn :
          LET replies == {i \in BotEntriesOf(n) :
                              IsPrimary(messages[i]) \/ IsError(messages[i])}
              acks == {i \in BotEntriesOf(n) : IsLocationAck(messages[i])}
          IN  /\ Cardinality(UserEntriesOf(n)) <= 1
              /\ Cardinality(acks) <= 1
              /\ Cardinality(replies) <= 1
              /\ InFlight(n) => replies = {}
              /\ (Completed(n) /\ UserEntriesOf(n) # {})
                    => /\ Cardinality(replies) = 1
                       /\ \A i \in BotEntriesOf(n) :
                              \/ i \in replies \/ i \in acks
                              \/ IsCalendar(messages[i]) \/ IsHandoff(messages[i])
                       /\ \A u \in UserEntriesOf(n) :
                              acks # {} => MatchesLocation(messages[u].content)

\* C11 witness: a completed turn with its user entry, a location
\* acknowledgement and its reply entry in the log.
C11_Witness ==
    \E n \in 1..turn :
        /\ Completed(n)
        /\ UserEntriesOf(n) # {}
        /\ \E i, j \in BotEntriesOf(n) :
              /\ i < j
              /\ IsLocationAck(messages[i])
              /\ IsPrimary(messages[j]) \/ IsError(messages[j])

\* C12: humanOperatorMode is one-way: a step that takes it from true to false
\* is a reset; submissions, successful and failed turns, delayed messages,
\* minimise and restore leave it true.
C12_OperatorModeOneWay ==
    [][ (humanOperatorMode /\ ~humanOperatorMode') => ResetChat ]_vars

\* C12 witness: humanOperatorMode is still true after a later turn was
\* answered by a reply that does not ask for a human.
C12_Witness ==
    /\ humanOperatorMode
    /\ \E i, j \in DOMAIN messages :
          /\ i < j
          /\ IsPrimary(messages[i]) /\ messages[i].turn = 1
          /\ messages[j] = BotMessage(2, <<"What hour?">>)

\* C13: the log, which holds what was appended since the last reset, has at
\* most one handoff announcement, however many replies asked for a human.
C13_OneHandoffAnnouncement ==
    Cardinality({k \in DOMAIN messages : IsHandoff(messages[k])}) <= 1

\* C14: submitting a text that is empty or only white space is a no-op: the
\* log does not grow, no request is sent, no handler starts and isLoading
\* stays as it was (false when it was false).
C14_BlankSubmitNoOp ==
    [][ \A message \in TypedTexts :
            (trim(message) = <<>> /\ SubmitText(message))
                => /\ messages' = messages
                   /\ sent' = sent
                   /\ handlers' = handlers
                   /\ isLoading' = isLoading ]_vars

\* C14 witness: the input is rendered, nothing is in flight and the turn
\* bound leaves room after a completed turn, so a blank submission is
\* refused by its text alone.
C14_Witness ==
    /\ ~isChatMinimized /\ ~isLoading /\ turnsLeft > 0
    /\ Completed(1)
    /\ \E message \in TypedTexts : message # <<>> /\ trim(message) = <<>>

\* C15: the log is append-only: in every step that is not a reset the log
\* before the step is a prefix of the log after it.
C15_AppendOnly ==
    [][ ~IsPrefix(messages, messages') => ResetChat ]_vars

\* C15 witness: the log has grown by a user entry, a primary response and a
\* delayed handoff announcement, in that order, behind the greeting.
C15_Witness ==
    /\ Len(messages) >= 4
    /\ messages[1] = Greeting
    /\ ~messages[2].isBot
    /\ IsPrimary(messages[3])
    /\ IsHandoff(messages[Len(messages)])

\* C16: no error is fatal: when every awaited call eventually settles, a
\* submitted turn eventually ends with isLoading cleared, on success and on
\* every failure path; and whenever no turn is in flight (after a failed
\* turn in particular) a submission of a non-blank text is accepted.
C16_NoErrorIsFatal ==
    /\ isLoading ~> ~isLoading
    /\ [](handlers = {} =>
            \A message \in TypedTexts :
                trim(message) # <<>> => CanSubmit(message))

\* C16 witness: turn 1 failed (its apology is in the log) and the next
\* submission was accepted and answered as a normal turn.
C16_Witness ==
    \E i, j, k \in DOMAIN messages :
        /\ i < j /\ j < k
        /\ IsError(messages[i]) /\ messages[i].turn = 1
        /\ ~messages[j].isBot /\ messages[j].turn = 2
        /\ IsPrimary(messages[k]) /\ messages[k].turn = 2
        /\ ~isLoading

\* C17: in every reachable state the quick replies on offer are a function
\* of the state: the three dates when expecting is 'date', the three time
\* slots when it is 'time', otherwise the three acknowledgements when
\* humanOperatorMode is true, otherwise the four default prompts.
C17_QuickReplySet ==
    LET active == {getQuickResponses[i] : i \in DOMAIN getQuickResponses}
        expecting == conversationState.expecting
    IN  /\ expecting = "date"
            => active = {<<"Today">>, <<"Tomorrow">>, <<"Next", "week">>}
        /\ expecting = "time"
            => active = {<<"9", "AM">>, <<"12", "PM">>, <<"3", "PM">>}
        /\ (expecting \notin {"date", "time"} /\ humanOperatorMode)
            => active = {<<"Thank", "you">>, <<"I'll", "wait">>,
                         <<"Can", "I", "get", "an", "email", "update?">>}
        /\ (expecting \notin {"date", "time"} /\ ~humanOperatorMode)
            => /\ Cardinality(active) = 4
               /\ active = {<<"I", "need", "a", "autoservice", "in", "my", "location">>,
                            <<"I", "have", "a", "brake", "problem">>,
                            <<"Schedule", "an", "appointment">>,
                            <<"Contact", "a", "human", "agent">>}

\* C17 witness: a date is expected while humanOperatorMode is true, the case
\* where `expecting` takes precedence.
C17_Witness ==
    /\ conversationState.expecting = "date"
    /\ humanOperatorMode
    /\ ~isLoading

\* C18: after a successful turn the Slot Store is the merge of the previous
\* store with the reply: selectedService is the reply's first service when
\* there is one, expecting, date and time are the reply's values when
\* present, issue is 'brake problem' when the text contains it, and every
\* slot the reply gives no value for is carried forward.
C18_SlotStoreIsMerge ==
    [][ \A h \in handlers, data \in Replies :
            JsonResolved(h, data) =>
                LET prev == conversationState
                    next == conversationState'
                IN  /\ next.selectedService =
                          IF data.services # <<>> THEN data.services[1]
                          ELSE prev.selectedService
                    /\ next.expecting =
                          IF data.expecting # Undef THEN data.expecting
                          ELSE prev.expecting
                    /\ next.date =
                          IF data.date # Undef THEN data.date ELSE prev.date
                    /\ next.time =
                          IF data.time # Undef THEN data.time ELSE prev.time
                    /\ includes(toLowerCase(h.content), <<"brake", "problem">>)
                          => next.issue = "brake problem"
                    /\ ~MatchesBrakeProblem(h.content)
                          => next.issue = prev.issue
      ]_vars

\* C19: a 2xx reply without `response` does not fail the turn, and the bot
\* entry appended for it carries a placeholder string: no bot entry of the
\* log has an absent text.
C19_BotEntryHasText ==
    \A i \in DOMAIN messages :
        messages[i].isBot => messages[i].content # <<Undef>>

\* C20: in the widget a quick-reply tap made while loading is true is
\* ignored: it neither appends a message nor sends a request, and it does
\* not put a second turn in flight.
C20_WidgetTapWhileLoadingIgnored ==
    [][ \A i \in 1..2 :
            (widget.loading /\ WidgetQuickSelect(i))
                => /\ widget'.messages = widget.messages
                   /\ widgetCalls'.sent = widgetCalls.sent
                   /\ WidgetTurnsInFlight(widgetCalls') =
                          WidgetTurnsInFlight(widgetCalls)
      ]_vars

\* C21: in the mall-delivery ChatContainer the step that handles the body of
\* a reply with a status outside 2xx does what a transport failure does: it
\* appends the one fallback message, and it processes no action or other
\* field of the body (no onAction call, no location prompt, no delayed
\* assistant message).
C21_MallNonOkIsFailure ==
    [][ \A h \in mallCalls.handlers, data \in MallReplies :
            (~h.ok /\ MallJsonResolved(h, data))
                => /\ mall'.messages =
                          Append(mall.messages,
                                 MallMessage(h.turn, "assistant", MallErrorText))
                   /\ mallCalls'.actions = mallCalls.actions
                   /\ mallCalls'.timers = mallCalls.timers
                   /\ mall'.waitingForLocation = mall.waitingForLocation
                   /\ mall'.locationOptions = mall.locationOptions
      ]_vars

\* C22: when a stopped recording's onstop handler runs with chunks that add
\* up to fewer than 1024 bytes, nothing reaches the widget (no log entry, no
\* upload, loading as it was); with 1024 bytes or more the blob is forwarded
\* exactly once: one upload goes out and loading is set.
C22_ShortRecordingDiscarded ==
    [][ (voice.recorder = "flushed" /\ voice'.recorder = "inactive")
            => IF totalSize(voice.chunks) < 1024
               THEN /\ widget' = widget
                    /\ widgetCalls' = widgetCalls
               ELSE /\ widgetCalls'.sent = widgetCalls.sent + 1
                    /\ Cardinality(widgetCalls'.handlers \ widgetCalls.handlers) = 1
                    /\ \A h \in widgetCalls'.handlers \ widgetCalls.handlers :
                          h.kind = "voice"
                    /\ widget'.messages = widget.messages
                    /\ widget'.loading ]_vars

\* A recording of 1023 bytes was stopped and discarded: nothing was sent.
C22_Witness ==
    /\ voice.recorder = "inactive"
    /\ voice.chunks = <<1023>>
    /\ widgetCalls.sent = 0
    /\ ~widget.loading
    /\ widget.messages = <<>>

\* C26: once the averaged level has been below the silence threshold for
\* 5 seconds without interruption, the recording has been stopped: after the
\* silence check that measures 5000 ms or more of silence, the recorder is
\* no longer recording and isRecording is false.
C26_SilenceStopsRecording ==
    (voice.monitoring /\ SilenceElapsed(voice.silenceStart, now))
        => (voice.recorder # "recording" /\ ~voice.isRecording)

\* C23: the messages of the log have pairwise distinct ids, whatever the
\* timing of the steps.
C23_DistinctIds ==
    \A i, j \in DOMAIN messages : i # j => messages[i].id # messages[j].id

\* C24: in the mall-delivery chat the typing indicator is cleared only after
\* the turn's bot reply has been appended: isTyping is never false while a
\* reply is still waiting (in its 500 ms timeout) to be appended.
C24_TypingUntilReplyAppended ==
    mallCalls.timers # <<>> => mall.isTyping

\* C25: tapping 'Browse Available Malls' or 'Browse Products' in the
\* mall-delivery chat submits the button's own text ('Show available malls',
\* 'Browse products') as the user entry of a new turn, whatever the input
\* box held, the empty box included.
C25_QuickReplySubmitsOwnText ==
    [][ \A button \in MallQuickButtons :
            MallQuickResponse(button)
                => /\ mall'.messages =
                         Append(mall.messages,
                                MallMessage(mallCalls.turn + 1, "user", button.text))
                   /\ \E h \in mallCalls'.handlers \ mallCalls.handlers :
                         h.content = button.text ]_vars

\* C27: turns do not interleave in the web log: every bot entry of a turn
\* (primary reply, calendar confirmation, handoff announcement) stands
\* before the user entry of any later turn.
C27_TurnsDoNotInterleave ==
    \A i, j \in DOMAIN messages :
        (i < j /\ ~messages[i].isBot /\ messages[j].isBot)
            => messages[j].turn >= messages[i].turn

\* C28: in the web ChatContainer loading is true exactly when a turn is in
\* flight (submitted, its reply or failure not handled yet), in every
\* reachable state, resets and minimise/restore included.
C28_LoadingIffInFlight ==
    isLoading <=> (\E n \in 1..turn : InFlight(n))

\* The chat was reset and minimised while a turn was in flight.
C28_Witness ==
    /\ isLoading
    /\ InFlight(turn)
    /\ UserEntriesOf(turn) = {}
    /\ isChatMinimized

\* C29: a failed or denied geolocation lookup does not abort the turn: the
\* step appends nothing and sends the request with location null, and the
\* turn then completes with one reply or one error message and without a
\* location acknowledgement; a text that does not match the heuristic is
\* sent at once, with location null and without a lookup.
C29_LookupFailureIsNotFatal ==
    [][ /\ \A h \in handlers :
              LocationRejected(h)
                  => /\ messages' = messages
                     /\ isLoading'
                     /\ sent' = sent + 1
                     /\ \E g \in handlers' :
                           /\ g.turn = h.turn /\ g.content = h.content
                           /\ g.pc = "fetch" /\ g.location = "null"
        /\ \A h \in handlers :
              ( /\ h.pc # "location" /\ h.location = "null"
                /\ MatchesLocation(h.content)
                /\ \A g \in handlers' : g.turn # h.turn )
                  => /\ ~isLoading'
                     /\ Len(messages') = Len(messages) + 1
                     /\ LET m == messages'[Len(messages')]
                        IN  m.turn = h.turn /\ (IsPrimary(m) \/ IsError(m))
                     /\ \A i \in DOMAIN messages' :
                           ~(IsLocationAck(messages'[i]) /\ messages'[i].turn = h.turn)
        /\ \A content \in TypedTexts :
              (handleSendMessage(content) /\ ~MatchesLocation(content))
                  => /\ sent' = sent + 1
                     /\ \A g \in handlers' \ handlers :
                           g.pc = "fetch" /\ g.location = "null" ]_vars

\* A turn whose text matches the heuristic has completed with a reply and
\* without an acknowledgement: its lookup failed.
C29_Witness ==
    /\ Completed(1)
    /\ \E i \in UserEntriesOf(1) : MatchesLocation(messages[i].content)
    /\ \E i \in BotEntriesOf(1) : IsPrimary(messages[i])
    /\ \A i \in BotEntriesOf(1) : ~IsLocationAck(messages[i])

\* The entry of product productId in the cart c, as a set of quantities.
QuantitiesOf(c, productId) ==
    {c[i].quantity : i \in {j \in DOMAIN c : c[j].id = productId}}

\* C30: the cart always holds at most one entry per product id and every
\* entry's quantity is at least 1; addToCart of a product already in the
\* cart raises that entry's quantity by 1 and changes no other entry; and
\* updateQuantity with a quantity of 0 or less removes the entry.
C30_CartWellFormed ==
    /\ [](/\ \A i, j \in DOMAIN cart : cart[i].id = cart[j].id => i = j
          /\ \A i \in DOMAIN cart : cart[i].quantity >= 1)
    /\ [][ /\ \A productId \in ProductIds :
                 (InCart(cart, productId) /\ addToCart(productId))
                     => /\ Len(cart') = Len(cart)
                        /\ \A i \in DOMAIN cart :
                              /\ cart'[i].id = cart[i].id
                              /\ cart'[i].quantity =
                                    IF cart[i].id = productId
                                    THEN cart[i].quantity + 1
                                    ELSE cart[i].quantity
           /\ \A productId \in ProductIds, quantity \in Quantities :
                 (quantity <= 0 /\ updateQuantity(productId, quantity))
                     => /\ ~InCart(cart', productId)
                        /\ \A other \in ProductIds \ {productId} :
                              QuantitiesOf(cart', other) = QuantitiesOf(cart, other)
         ]_vars

\* The cart holds two products in the order they were added, the first of
\* them with its quantity raised to 3.
C30_Witness ==
    /\ Len(cart) = 2
    /\ cart[1].id = "102" /\ cart[1].quantity = 3
    /\ cart[2].id = "101" /\ cart[2].quantity = 1

====
